---- MODULE Spec2Model ----
(***************************************************************************)
(* A model of the farmhand simulation core (src/utils.js and the handlers  *)
(* around it): the memoization cache, the crop life cycle, cow breeding,   *)
(* the market's value adjustments, range operations on the field, the      *)
(* event handlers of the game component, and the inventory-space and       *)
(* item-value functions.                                                   *)
(*                                                                         *)
(* Each component has its own specification (SpecMemo, SpecCrop, SpecDry,  *)
(* SpecCow, SpecPrice, SpecRange, SpecGame, SpecSpace, SpecValue); the     *)
(* components share no state, so a specification holds the variables of    *)
(* the other components at their idle values.                              *)
(*                                                                         *)
(* Numbers.  JavaScript numbers that take fractional values are held as    *)
(* integers in a fixed unit:                                               *)
(*   - crop.daysWatered is held in units of 1/Scale day;                   *)
(*   - Math.random() is one of k/RandDen, k \in 0..RandDen-1, so it is     *)
(*     always in [0, 1); a value adjustment is held in units of            *)
(*     1/(2*RandDen), in which 0.5 is RandDen and 1.5 is 3*RandDen;        *)
(*   - cow.baseWeight is a fraction <<numerator, denominator>>;            *)
(*   - the value of an item of the catalog (itemsMap) is held in cents;    *)
(*   - the money of the game component and the values of the items its     *)
(*     handlers are given are whole numbers, which doubles hold and        *)
(*     subtract exactly, so they are the same numbers in the model.        *)
(***************************************************************************)
EXTENDS Integers, Sequences, FiniteSets, TLC

VARIABLES
    \* --- memoization (utils.js: MemoizeCache, memoize) ---
    memoFn,       \* which memoized function this cache instance belongs to
    cache,        \* MemoizeCache.cache: a map from key to value
    lastCall,     \* the last call of the memoized function and what it returned
    \* --- crop life cycle ---
    plot,         \* the plot content of one field cell
    ticks,        \* number of daily ticks applied to the plot
    \* --- cows ---
    herd,         \* the set of cows generated so far
    breeding,     \* the last generateOffspringCow call and its outcome
    \* --- market ---
    priceCrashes, \* map item id -> price event
    priceSurges,  \* map item id -> price event
    valueAdjustments, \* the map returned by generateValueAdjustments
    \* --- range operations (forRange) ---
    rangeCall,    \* the last forRange call and the state it returned
    \* --- the game component's state (this.state of the event handlers) ---
    asConstructed, \* the keys of this.state that are as the constructor
                  \* left them: inventory is then the object {} and not
                  \* an array, and the other keys are undefined.  For
                  \* inventory the variable is then <<>>, the object
                  \* having no entries; the variable of another key
                  \* listed here holds no value of the program and no
                  \* handler reads it.
    field,        \* rows of plots: field[y][x], null where nothing is planted
    inventory,    \* array of {id, quantity}
    inventoryLimit, \* capacity of the inventory, -1 when unlimited
    money,        \* a whole number
    selectedPlantableItemId, \* '' when no plantable item is selected
    selectedTool,
    stageFocus,   \* undefined until handleViewChange sets it
    thrownBy,     \* the handler whose call, the last one, threw; '' if it returned
    absentItemSelected, \* history: handlePlantableItemSelect was once given
                  \* an item the inventory did not hold
    \* --- pure queries ---
    spaceQuery,   \* the last inventory-space query and its answers
    valueQuery    \* the last item-value query and its answers

memoVars  == <<memoFn, cache, lastCall>>
cropVars  == <<plot, ticks>>
cowVars   == <<herd, breeding>>
priceVars == <<priceCrashes, priceSurges, valueAdjustments>>
rangeVars == <<rangeCall>>
gameVars  == <<asConstructed, field, inventory, inventoryLimit, money,
               selectedPlantableItemId, selectedTool, stageFocus, thrownBy,
               absentItemSelected>>
queryVars == <<spaceQuery, valueQuery>>
vars      == <<memoVars, cropVars, cowVars, priceVars,
               rangeVars, gameVars, queryVars>>

\* JavaScript's null and undefined.  (Records, so that they compare with the
\* objects and arrays a variable may hold instead.)
Null == [null |-> TRUE]
Undefined == [undefined |-> TRUE]
\* A JavaScript array where a variable may hold null or undefined instead.
Arr(seq) == [array |-> seq]
\* A JavaScript string where a variable may hold undefined instead.
Str(chars) == [string |-> chars]

(***************************************************************************)
(* Bounds of the model.                                                    *)
(***************************************************************************)
\* daysWatered is held in units of 1/Scale day.
Scale == 2
\* Math.random() returns k/RandDen for some k in 0..RandDen-1.
RandDen == 2
\* The number of daily ticks a behaviour applies to a plot.
MaxDays == 10
\* The number of cows a herd may hold.
MaxHerd == 3

(***************************************************************************)
(* enums.js and constants.js (imported by utils.js)                        *)
(***************************************************************************)
SEED == "SEED"
GROWING == "GROWING"
GROWN == "GROWN"

CROP == "CROP"
SCARECROW == "SCARECROW"
MILK == "MILK"

\* constants.js: FERTILIZER_BONUS, in units of 1/Scale day (half a day).
FERTILIZER_BONUS == 1

(***************************************************************************)
(* The item catalog (data/maps: itemsMap).  The catalog is data: these     *)
(* entries are a sample holding every shape of item the functions below    *)
(* distinguish.  An item's value is in cents, a multiple of 25.             *)
(***************************************************************************)
ItemIds == {"sample-crop-1", "sample-crop-2", "sample-crop-3",
            "sample-crop-4", "scarecrow", "milk-1"}

itemsMap ==
    [id \in ItemIds |->
        CASE id = "sample-crop-1" ->
               [id |-> id, type |-> CROP, value |-> 25, doesPriceFluctuate |-> TRUE,
                cropTimetable |-> [SEED |-> 1, GROWING |-> 2]]
          [] id = "sample-crop-2" ->
               [id |-> id, type |-> CROP, value |-> 50, doesPriceFluctuate |-> TRUE,
                cropTimetable |-> [SEED |-> 3, GROWING |-> 4]]
          [] id = "sample-crop-3" ->
               [id |-> id, type |-> CROP, value |-> 75, doesPriceFluctuate |-> TRUE,
                cropTimetable |-> [SEED |-> 2, GROWING |-> 1]]
          [] id = "sample-crop-4" ->
               [id |-> id, type |-> CROP, value |-> 125, doesPriceFluctuate |-> FALSE,
                cropTimetable |-> [SEED |-> 0, GROWING |-> 2]]
          [] id = "scarecrow" ->
               [id |-> id, type |-> SCARECROW, value |-> 175,
                doesPriceFluctuate |-> FALSE]
          [] id = "milk-1" ->
               [id |-> id, type |-> MILK, value |-> 250,
                doesPriceFluctuate |-> FALSE]]

CropItemIds == {id \in ItemIds : itemsMap[id].type = CROP}

(***************************************************************************)
(* Crop life cycle                                                         *)
(***************************************************************************)
\* utils.js: getPlotContentFromItemId
getPlotContentFromItemId(itemId) == [itemId |-> itemId]

\* Faulty variant of getCropFromItemId: the crop starts with a watered day.
getCropFromItemIdStartsWatered(itemId) ==
    [itemId |-> getPlotContentFromItemId(itemId).itemId,
     daysOld |-> 0,
     daysWatered |-> Scale,
     isFertilized |-> FALSE,
     wasWateredToday |-> FALSE]

\* utils.js: getCropFromItemId.  The spread of getPlotContentFromItemId
\* contributes the itemId field.
getCropFromItemId(itemId) ==
    [itemId |-> getPlotContentFromItemId(itemId).itemId,
     daysOld |-> 0,
     daysWatered |-> 0,
     isFertilized |-> FALSE,
     wasWateredToday |-> FALSE]

\* utils.js: getPlotContentType
getPlotContentType(plotContent) == itemsMap[plotContent.itemId].type

\* Faulty variant of doesPlotContainCrop: the item type is not looked at.
doesPlotContainCropAlways(p) == p /= Null

\* utils.js: doesPlotContainCrop
doesPlotContainCrop(p) == p /= Null /\ getPlotContentType(p) = CROP

\* Faulty variant of getLifeStageRange: one SEED entry too many.
getLifeStageRangeOffByOne(cropTimetable) ==
    [i \in 1..(cropTimetable[SEED] + 1) |-> SEED]
        \o [i \in 1..cropTimetable[GROWING] |-> GROWING]

\* utils.js: getLifeStageRange (the function that memoize wraps):
\* timetable[SEED] copies of SEED, then timetable[GROWING] copies of GROWING.
getLifeStageRange(cropTimetable) ==
    [i \in 1..cropTimetable[SEED] |-> SEED]
        \o [i \in 1..cropTimetable[GROWING] |-> GROWING]

\* Math.floor of a non-negative number held in units of 1/Scale.
Floor(scaled) == scaled \div Scale

\* Faulty variant of getCropLifeStage: indexed by daysOld, not daysWatered.
getCropLifeStageByAge(crop) ==
    LET range == getLifeStageRange(itemsMap[crop.itemId].cropTimetable)
        index == crop.daysOld
    IN  IF index + 1 \in DOMAIN range THEN range[index + 1] ELSE GROWN

\* utils.js: getCropLifeStage.  JavaScript arrays are 0-based, sequences
\* 1-based; an index past the end reads undefined, which || turns to GROWN.
getCropLifeStage(crop) ==
    LET range == getLifeStageRange(itemsMap[crop.itemId].cropTimetable)
        index == Floor(crop.daysWatered)
    IN  IF index + 1 \in DOMAIN range THEN range[index + 1] ELSE GROWN

\* Faulty variant of incrementPlotContentAge: wasWateredToday is not looked at.
incrementPlotContentAgeIgnoresWater(plotContent) ==
    IF doesPlotContainCrop(plotContent)
    THEN [plotContent EXCEPT
            !.daysOld = @ + 1,
            !.daysWatered = @ + Scale
                + (IF plotContent.isFertilized THEN FERTILIZER_BONUS ELSE 0)]
    ELSE plotContent

\* incrementPlotContentAge (the daily tick of one plot content).  Its file
\* is not among the sources; the behaviour is the one its tests pin down:
\* a crop ages by one day and, when it was watered today, gains one watered
\* day plus FERTILIZER_BONUS when it is fertilized; anything that is not a
\* crop is returned as it is.
incrementPlotContentAge(plotContent) ==
    IF doesPlotContainCrop(plotContent)
    THEN [plotContent EXCEPT
            !.daysOld = @ + 1,
            !.daysWatered = @ +
                (IF plotContent.wasWateredToday
                 THEN Scale
                      + (IF plotContent.isFertilized THEN FERTILIZER_BONUS ELSE 0)
                 ELSE 0)]
    ELSE plotContent

\* The plot contents a cell starts with: a freshly planted crop of any crop
\* item, a scarecrow placed as a bare plot content, and a scarecrow record
\* that carries crop fields (the shape the tests build with testCrop).
InitialPlots ==
    {getCropFromItemId(id) : id \in CropItemIds}
        \cup {getPlotContentFromItemId("scarecrow"),
              getCropFromItemId("scarecrow")}

CropInit ==
    /\ plot \in InitialPlots
    /\ ticks = 0

CropIdle ==
    /\ plot = Null
    /\ ticks = 0

\* The caller waters the plot, or resets the flag for a new day.
SetWasWateredToday(w) ==
    /\ plot.itemId \in CropItemIds
    /\ plot.wasWateredToday /= w
    /\ plot' = [plot EXCEPT !.wasWateredToday = w]
    /\ UNCHANGED ticks
    /\ UNCHANGED <<memoVars, cowVars, priceVars, rangeVars, gameVars, queryVars>>

\* The caller fertilizes the plot, or the fertilizer is used up.
SetIsFertilized(f) ==
    /\ plot.itemId \in CropItemIds
    /\ plot.isFertilized /= f
    /\ plot' = [plot EXCEPT !.isFertilized = f]
    /\ UNCHANGED ticks
    /\ UNCHANGED <<memoVars, cowVars, priceVars, rangeVars, gameVars, queryVars>>

\* The daily tick: incrementPlotContentAge applied to the cell.
IncrementAge ==
    /\ ticks < MaxDays
    /\ plot' = incrementPlotContentAge(plot)
    /\ ticks' = ticks + 1
    /\ UNCHANGED <<memoVars, cowVars, priceVars, rangeVars, gameVars, queryVars>>

(***************************************************************************)
(* Memoization                                                             *)
(***************************************************************************)
\* constants.js: MEMOIZE_CACHE_CLEAR_THRESHOLD.  The properties below are
\* stated in terms of the name, not of the value.
MEMOIZE_CACHE_CLEAR_THRESHOLD == 10

Min(S) == CHOOSE m \in S : \A n \in S : m <= n

\* An argument of a call.  A function value is its source text (what
\* toString() returns) and the variables it closes over; anything else is
\* plain data.
Data(value) == [type |-> "object", value |-> value]
Fn(src, env) == [type |-> "function", src |-> src, env |-> env]

SrcItemIs == "plot => plot && plot.itemId === id"
SrcIsEmpty == "plot => plot === null"
SrcIsCrop == "plot => doesPlotContainCrop(plot)"
SrcIsPlot == "plot => plot !== null"

\* The callbacks passed to findInField and getCrops.  The first two are the
\* closure that one factory, id => plot => plot && plot.itemId === id,
\* returns for two ids: the same source text, a different id.
Conditions ==
    {Fn(SrcItemIs, "sample-crop-1"), Fn(SrcItemIs, "scarecrow"),
     Fn(SrcIsEmpty, ""), Fn(SrcIsCrop, ""), Fn(SrcIsPlot, "")}

\* Calling a callback on a field cell; TRUE when the result is truthy.
CallCondition(condition, cell) ==
    CASE condition.src = SrcItemIs ->
           cell /= Null /\ cell.itemId = condition.env
      [] condition.src = SrcIsEmpty -> cell = Null
      [] condition.src = SrcIsCrop -> doesPlotContainCrop(cell)
      [] condition.src = SrcIsPlot -> cell /= Null

\* The fields passed to findInField and getCrops: rows of cells.
Fields ==
    LET crop == getCropFromItemId("sample-crop-1")
        scarecrow == getPlotContentFromItemId("scarecrow")
    IN  {<< <<Null, crop>>, <<Null, Null>> >>,
         << <<scarecrow, Null>>, <<Null, crop>> >>}

\* The timetables passed to getLifeStageRange.
Timetables == {[SEED |-> s, GROWING |-> g] : s \in 0..3, g \in 1..3}

\* Array.prototype.find on a row: the first cell the callback accepts, or
\* undefined.
RowFind(row, condition) ==
    LET hits == {i \in DOMAIN row : CallCondition(condition, row[i])}
    IN  IF hits = {} THEN Undefined ELSE row[Min(hits)]

\* utils.js: findInField (the function that memoize wraps).  The outer
\* find keeps the first row whose inner find returned a truthy cell.
findInFieldFn(fieldRows, condition) ==
    LET found == {j \in DOMAIN fieldRows :
                     LET cell == RowFind(fieldRows[j], condition)
                     IN  cell /= Undefined /\ cell /= Null}
    IN  IF found = {} THEN Null ELSE Arr(fieldRows[Min(found)])

RECURSIVE FilterRows(_, _)
\* The reduce of getCrops: the cells the callback accepts, row after row.
FilterRows(fieldRows, filterCondition) ==
    IF fieldRows = <<>>
    THEN <<>>
    ELSE SelectSeq(Head(fieldRows), LAMBDA cell : CallCondition(filterCondition, cell))
            \o FilterRows(Tail(fieldRows), filterCondition)

\* utils.js: getCrops (the function that memoize wraps).
getCropsFn(fieldRows, filterCondition) == Arr(FilterRows(fieldRows, filterCondition))

\* JSON.stringify of the argument list, fast-memoize's default serializer:
\* a function in an array is written as null.  The JSON text of a data
\* value is identified with the value.
jsonStringify(args) ==
    [i \in DOMAIN args |->
        IF args[i].type = "function" THEN Null ELSE args[i].value]

\* utils.js: memoizationSerializer: a function argument is written as its
\* source text.
memoizationSerializer(args) ==
    [i \in DOMAIN args |->
        IF args[i].type = "function" THEN <<args[i].src>> ELSE args[i].value]

\* utils.js: MemoizeCache.has
MemoizeCacheHas(c, key) == key \in DOMAIN c

\* utils.js: MemoizeCache.get: a key that is not in the map reads undefined.
\* (The keys are JSON texts of arrays and objects, so none is the name of
\* a property the cache object inherits.)
MemoizeCacheGet(c, key) == IF MemoizeCacheHas(c, key) THEN c[key] ELSE Undefined

\* Faulty variant of MemoizeCache.set: >= in place of >.
MemoizeCacheSetClearsAtThreshold(c, key, value) ==
    LET kept == IF Cardinality(DOMAIN c) >= MEMOIZE_CACHE_CLEAR_THRESHOLD
                THEN <<>> ELSE c
    IN  [k \in DOMAIN kept \cup {key} |-> IF k = key THEN value ELSE kept[k]]

\* utils.js: MemoizeCache.set
MemoizeCacheSet(c, key, value) ==
    LET kept == IF Cardinality(DOMAIN c) > MEMOIZE_CACHE_CLEAR_THRESHOLD
                THEN <<>> ELSE c
    IN  [k \in DOMAIN kept \cup {key} |-> IF k = key THEN value ELSE kept[k]]

\* The functions utils.js wraps with memoize that the model covers.
MemoFns == {"findInField", "getCrops", "getLifeStageRange"}

\* The serializer each of them is configured with.
Serializer(fn, args) ==
    IF fn \in {"findInField", "getCrops"}
    THEN memoizationSerializer(args)
    ELSE jsonStringify(args)

\* The wrapped function, applied to an argument list.
Unwrapped(fn, args) ==
    CASE fn = "findInField" -> findInFieldFn(args[1].value, args[2])
      [] fn = "getCrops" -> getCropsFn(args[1].value, args[2])
      [] fn = "getLifeStageRange" -> Arr(getLifeStageRange(args[1].value))

\* The argument lists a memoized function is called with.
ArgsOf(fn) ==
    IF fn \in {"findInField", "getCrops"}
    THEN {<<Data(f), c>> : f \in Fields, c \in Conditions}
    ELSE {<<Data(t)>> : t \in Timetables}

\* utils.js: memoize, that is fast-memoize with a MemoizeCache: look the
\* serialized arguments up; on undefined, call the function and store what
\* it returned.
memoize(fn, c, args) ==
    LET key == Serializer(fn, args)
        computedValue == MemoizeCacheGet(c, key)
        hit == computedValue /= Undefined
        value == IF hit THEN computedValue ELSE Unwrapped(fn, args)
        stored == IF hit THEN c ELSE MemoizeCacheSet(c, key, value)
    IN  [args |-> args,
         key |-> key,
         hit |-> hit,
         \* the set dropped what the cache held
         cleared |-> ~hit /\ c /= <<>> /\ DOMAIN stored = {key},
         result |-> value,
         cache |-> stored]

MemoInit ==
    /\ memoFn \in MemoFns
    /\ cache = <<>>
    /\ lastCall = Null

MemoIdle ==
    /\ memoFn = ""
    /\ cache = <<>>
    /\ lastCall = Null

\* One call of the memoized function.
Call ==
    \E args \in ArgsOf(memoFn) :
        LET r == memoize(memoFn, cache, args)
        IN  /\ cache' = r.cache
            /\ lastCall' = [args |-> r.args, key |-> r.key, hit |-> r.hit,
                            cleared |-> r.cleared, result |-> r.result]
            /\ UNCHANGED memoFn
            /\ UNCHANGED <<cropVars, cowVars, priceVars, rangeVars, gameVars, queryVars>>

(***************************************************************************)
(* Cows                                                                    *)
(***************************************************************************)
\* enums.js: genders and cowColors, as Object.values lists them.
MALE == "MALE"
FEMALE == "FEMALE"
genders == <<FEMALE, MALE>>
cowColors == <<"BLUE", "BROWN">>
\* data/fruit-names
fruitNames == <<"Apple">>

\* constants.js
COW_STARTING_WEIGHT_BASE == 1800
COW_STARTING_WEIGHT_VARIANCE == 200
\* MALE_COW_WEIGHT_MULTIPLIER, 1.1, in tenths.
MALE_COW_WEIGHT_MULTIPLIER_TENTHS == 11

\* The values Math.random() returns, as numerators over RandDen.
Randoms == 0..(RandDen - 1)

\* utils.js: chooseRandom: list[Math.round(Math.random() * (length - 1))],
\* with Math.round(x) = floor(x + 1/2), for the draw r/RandDen.
chooseRandom(list, r) ==
    list[((2 * r * (Len(list) - 1) + RandDen) \div (2 * RandDen)) + 1]

\* utils.js: createUniqueId: btoa(Math.random() + Date.now()).  The string
\* depends on the draw and on the clock only, so a call may return the id
\* of any cow generated before (the same sum again: the same draw in the
\* same millisecond, or two draws the double of the sum does not tell
\* apart) or an id no cow has.  Ids are only ever compared, and an id is
\* held as a number: the ids of the cows generated so far are 1..k, in the
\* order of their first use.  The operator gives the ids a call may return
\* when the cows of existing are the ones generated so far.
createUniqueId(existing) ==
    LET used == {cow.id : cow \in existing}
    IN  used \cup {Cardinality(used) + 1}

RECURSIVE GCD(_, _)
GCD(a, b) == IF b = 0 THEN a ELSE GCD(b, a % b)

\* A fraction in lowest terms.
Fraction(n, d) == <<n \div GCD(n, d), d \div GCD(n, d)>>

\* (a + b) / 2 for two fractions.
HalfSum(a, b) == Fraction(a[1] * b[2] + b[1] * a[2], 2 * a[2] * b[2])

\* Object spread { ...defaults, ...options }: a field of options wins.
Spread(defaults, options) ==
    [f \in DOMAIN defaults \cup DOMAIN options |->
        IF f \in DOMAIN options THEN options[f] ELSE defaults[f]]

\* utils.js: generateCow.  rGender, rWeight, rColor and rName are the
\* Math.random() draws it makes and id is what createUniqueId() returns,
\* which need not differ from the id of a cow generated before.
\* colorsInBloodline, an object with a true entry per color, is held as
\* the set of its keys.
generateCow(options, rGender, rWeight, rColor, rName, id) ==
    LET gender == IF "gender" \in DOMAIN options
                  THEN options.gender
                  ELSE chooseRandom(genders, rGender)
        tenths == IF gender = MALE THEN MALE_COW_WEIGHT_MULTIPLIER_TENTHS ELSE 10
        \* base * multiplier - variance + random * (variance * 2), over 10 * RandDen
        den == 10 * RandDen
        num == COW_STARTING_WEIGHT_BASE * tenths * RandDen
                 - COW_STARTING_WEIGHT_VARIANCE * den
                 + rWeight * COW_STARTING_WEIGHT_VARIANCE * 2 * 10
        baseWeight == (2 * num + den) \div (2 * den)
        color == IF "color" \in DOMAIN options
                 THEN options.color
                 ELSE chooseRandom(cowColors, rColor)
    IN  Spread([baseWeight |-> <<baseWeight, 1>>,
                color |-> color,
                colorsInBloodline |-> {color},
                daysOld |-> 1,
                daysSinceMilking |-> 0,
                gender |-> gender,
                happiness |-> 0,
                happinessBoostsToday |-> 0,
                id |-> id,
                isUsingHuggingMachine |-> FALSE,
                name |-> chooseRandom(fruitNames, rName),
                weightMultiplier |-> 1],
               options)

\* Faulty variant of generateOffspringCow: the genders are not compared.
generateOffspringCowAnyPair(cow1, cow2, rGender, rWeight, rColor, rName, id) ==
    LET maleCow == IF cow1.gender = MALE THEN cow1 ELSE cow2
        femaleCow == IF cow1.gender = MALE THEN cow2 ELSE cow1
    IN  [threw |-> FALSE,
         cow |-> generateCow(
             [color |-> maleCow.color,
              colorsInBloodline |->
                  {maleCow.color, femaleCow.color}
                      \cup maleCow.colorsInBloodline
                      \cup femaleCow.colorsInBloodline,
              baseWeight |-> HalfSum(maleCow.baseWeight, femaleCow.baseWeight)],
             rGender, rWeight, rColor, rName, id)]

\* Faulty variant of generateOffspringCow: the offspring's bloodline holds
\* the two parents' own colors only, not what the parents inherited.
generateOffspringCowOwnColorsOnly(cow1, cow2, rGender, rWeight, rColor, rName, id) ==
    IF cow1.gender = cow2.gender
    THEN [threw |-> TRUE,
          message |-> <<cow1, cow2,
              "cannot produce offspring because they have the same gender">>]
    ELSE LET maleCow == IF cow1.gender = MALE THEN cow1 ELSE cow2
             femaleCow == IF cow1.gender = MALE THEN cow2 ELSE cow1
         IN  [threw |-> FALSE,
              cow |-> generateCow(
                  [color |-> maleCow.color,
                   colorsInBloodline |-> {maleCow.color, femaleCow.color},
                   baseWeight |-> HalfSum(maleCow.baseWeight, femaleCow.baseWeight)],
                  rGender, rWeight, rColor, rName, id)]

\* Faulty variant of generateOffspringCow: the mother's bloodline is not
\* passed on.
generateOffspringCowFatherLineOnly(cow1, cow2, rGender, rWeight, rColor, rName, id) ==
    IF cow1.gender = cow2.gender
    THEN [threw |-> TRUE,
          message |-> <<cow1, cow2,
              "cannot produce offspring because they have the same gender">>]
    ELSE LET maleCow == IF cow1.gender = MALE THEN cow1 ELSE cow2
             femaleCow == IF cow1.gender = MALE THEN cow2 ELSE cow1
         IN  [threw |-> FALSE,
              cow |-> generateCow(
                  [color |-> maleCow.color,
                   colorsInBloodline |->
                       {maleCow.color, femaleCow.color}
                           \cup maleCow.colorsInBloodline,
                   baseWeight |-> HalfSum(maleCow.baseWeight, femaleCow.baseWeight)],
                  rGender, rWeight, rColor, rName, id)]

\* utils.js: generateOffspringCow.  The outcome is either the error thrown,
\* whose message holds JSON.stringify of both cows, or the cow returned.
generateOffspringCow(cow1, cow2, rGender, rWeight, rColor, rName, id) ==
    IF cow1.gender = cow2.gender
    THEN [threw |-> TRUE,
          message |-> <<cow1, cow2,
              "cannot produce offspring because they have the same gender">>]
    ELSE LET maleCow == IF cow1.gender = MALE THEN cow1 ELSE cow2
             femaleCow == IF cow1.gender = MALE THEN cow2 ELSE cow1
         IN  [threw |-> FALSE,
              cow |-> generateCow(
                  [color |-> maleCow.color,
                   colorsInBloodline |->
                       {maleCow.color, femaleCow.color}
                           \cup maleCow.colorsInBloodline
                           \cup femaleCow.colorsInBloodline,
                   baseWeight |-> HalfSum(maleCow.baseWeight, femaleCow.baseWeight)],
                  rGender, rWeight, rColor, rName, id)]

CowInit ==
    /\ herd = {}
    /\ breeding = Null

CowIdle ==
    /\ herd = {}
    /\ breeding = Null

\* A cow is generated (with no options) and joins the herd.
GenerateCow ==
    /\ Cardinality(herd) < MaxHerd
    /\ \E rGender \in Randoms, rWeight \in Randoms, rColor \in Randoms,
          id \in createUniqueId(herd) :
          herd' = herd \cup {generateCow(<<>>, rGender, rWeight, rColor, 0, id)}
    /\ UNCHANGED breeding
    /\ UNCHANGED <<memoVars, cropVars, priceVars, rangeVars, gameVars, queryVars>>

\* Two cows of the herd (or one cow with itself) are bred, offspring of
\* earlier breedings included.  When generateOffspringCow throws, the herd
\* stays as it is; the offspring joins the herd while the herd has room
\* for it.  The offspring's
\* color and baseWeight come from the parents, so of generateCow's draws
\* only the gender's shows.  The offspring's id may be that of a parent or
\* of any other cow of the herd.
Breed ==
    /\ UNCHANGED <<memoVars, cropVars, priceVars, rangeVars, gameVars, queryVars>>
    /\ \E cow1 \in herd, cow2 \in herd :
       \E rGender \in Randoms, id \in createUniqueId(herd) :
          LET outcome == generateOffspringCow(cow1, cow2, rGender, 0, 0, 0, id)
          IN  /\ breeding' = [cow1 |-> cow1, cow2 |-> cow2, outcome |-> outcome]
              /\ herd' = IF outcome.threw \/ Cardinality(herd) >= MaxHerd
                         THEN herd
                         ELSE herd \cup {outcome.cow}

(***************************************************************************)
(* Market                                                                  *)
(***************************************************************************)
\* The items a price event may name: the fluctuating ones and one that
\* does not fluctuate.
EventItemIds == {id \in ItemIds : itemsMap[id].doesPriceFluctuate}
                    \cup {"sample-crop-4"}

\* The maps of price events, item id -> {itemId, daysRemaining}.
PriceEventMaps ==
    {[id \in ids |-> [itemId |-> id, daysRemaining |-> 1]] :
        ids \in SUBSET EventItemIds}

\* Faulty variant of generateValueAdjustments: the surge is looked at first.
generateValueAdjustmentsSurgeFirst(crashes, surges, random) ==
    [key \in {k \in ItemIds : itemsMap[k].doesPriceFluctuate} |->
        IF key \in DOMAIN surges THEN 3 * RandDen
        ELSE IF key \in DOMAIN crashes THEN RandDen
        ELSE 2 * random[key] + RandDen]

\* utils.js: generateValueAdjustments.  random[key] is the Math.random()
\* draw made for the key; values are in units of 1/(2*RandDen).  An event
\* map's entry is an object, so it is truthy exactly when the key is there.
generateValueAdjustments(crashes, surges, random) ==
    [key \in {k \in ItemIds : itemsMap[k].doesPriceFluctuate} |->
        IF key \in DOMAIN crashes THEN RandDen
        ELSE IF key \in DOMAIN surges THEN 3 * RandDen
        ELSE 2 * random[key] + RandDen]

PriceInit ==
    /\ priceCrashes \in PriceEventMaps
    /\ priceSurges \in PriceEventMaps
    /\ valueAdjustments = Null

PriceIdle ==
    /\ priceCrashes = <<>>
    /\ priceSurges = <<>>
    /\ valueAdjustments = Null

\* The value adjustments are generated for the day.
GenerateValueAdjustments ==
    /\ \E random \in [{k \in ItemIds : itemsMap[k].doesPriceFluctuate} -> Randoms] :
          valueAdjustments' =
              generateValueAdjustments(priceCrashes, priceSurges, random)
    /\ UNCHANGED <<priceCrashes, priceSurges>>
    /\ UNCHANGED <<memoVars, cropVars, cowVars, rangeVars, gameVars, queryVars>>

(***************************************************************************)
(* Range operations                                                        *)
(***************************************************************************)
Max(S) == CHOOSE m \in S : \A n \in S : m >= n

\* The fields forRange is called on, as <<width, height>>: the 5 by 5
\* field, a field wider than high and a field of one plot.
FieldSizes == {<<5, 5>>, <<3, 2>>, <<1, 1>>}

\* The centers and radii forRange is called with: centers from
\* MaxRadius + 1 plots before the field to MaxRadius + 1 plots after it.
MaxRadius == 2

\* A state whose field has the given size and in which no call has been
\* made.  A plot holds the number of times it was visited.
RangeState(size) ==
    [field |-> [y \in 1..size[2] |-> [x \in 1..size[1] |-> 0]],
     calls |-> <<>>]

\* The fieldFn handed to forRange: it notes its arguments x and y and how
\* many calls the state it was given had seen, and counts the visit in
\* plot (x, y).  (JavaScript's indices start at 0, the model's rows and
\* columns at 1.)
fieldFn(state, x, y) ==
    [field |-> [state.field EXCEPT ![y + 1][x + 1] = @ + 1],
     calls |-> Append(state.calls,
                      [x |-> x, y |-> y, seen |-> Len(state.calls)])]

\* Faulty variant of forRange: the field's height bounds x and its width y.
forRangeSwapsBounds(state, rangeRadius, plotX, plotY) ==
    LET startX == Max({plotX - rangeRadius, 0})
        endX == Min({plotX + rangeRadius, Len(state.field) - 1})
        startY == Max({plotY - rangeRadius, 0})
        endY == Min({plotY + rangeRadius, Len(state.field[1]) - 1})
        w == IF endX >= startX THEN endX - startX + 1 ELSE 0
        h == IF endY >= startY THEN endY - startY + 1 ELSE 0
        n == w * h
        fold[k \in 0..n] ==
            IF k = 0 THEN state
            ELSE fieldFn(fold[k - 1],
                         startX + ((k - 1) % w), startY + ((k - 1) \div w))
    IN  fold[n]

\* forRange.js: forRange, with fieldFn for its callback and no further
\* args.  The two loops make w * h calls, the k-th of them for column
\* startX + (k - 1) mod w of row startY + (k - 1) div w; fold[k] is the
\* state after the k-th call.
forRange(state, rangeRadius, plotX, plotY) ==
    LET startX == Max({plotX - rangeRadius, 0})
        endX == Min({plotX + rangeRadius, Len(state.field[1]) - 1})
        startY == Max({plotY - rangeRadius, 0})
        endY == Min({plotY + rangeRadius, Len(state.field) - 1})
        w == IF endX >= startX THEN endX - startX + 1 ELSE 0
        h == IF endY >= startY THEN endY - startY + 1 ELSE 0
        n == w * h
        fold[k \in 0..n] ==
            IF k = 0 THEN state
            ELSE fieldFn(fold[k - 1],
                         startX + ((k - 1) % w), startY + ((k - 1) \div w))
    IN  fold[n]

\* utils.js: getRangeCoords: the square of coordinates around a center,
\* not clipped; row y of the result holds the coordinates of row
\* centerY - rangeSize + y (counting from 0).
getRangeCoords(rangeSize, centerX, centerY) ==
    LET squareSize == 2 * rangeSize + 1
        rangeStartX == centerX - rangeSize
        rangeStartY == centerY - rangeSize
    IN  [y \in 1..squareSize |->
            [x \in 1..squareSize |->
                [x |-> rangeStartX + (x - 1), y |-> rangeStartY + (y - 1)]]]

RangeInit == rangeCall = Null

RangeIdle == rangeCall = Null

\* forRange is called on a field on which no call has been made yet.
ForRange ==
    /\ rangeCall = Null
    /\ \E size \in FieldSizes, rangeRadius \in 0..MaxRadius :
       \E plotX \in (0 - MaxRadius - 1)..(size[1] + MaxRadius),
          plotY \in (0 - MaxRadius - 1)..(size[2] + MaxRadius) :
          rangeCall' = [state |-> RangeState(size),
                        rangeRadius |-> rangeRadius,
                        plotX |-> plotX,
                        plotY |-> plotY,
                        result |-> forRange(RangeState(size),
                                            rangeRadius, plotX, plotY)]
    /\ UNCHANGED <<memoVars, cropVars, cowVars, priceVars, gameVars, queryVars>>

(***************************************************************************)
(* The game component: its state and its event handlers                    *)
(***************************************************************************)
\* enums.js: toolType
NONE == "NONE"
WATERING_CAN == "WATERING_CAN"

\* The most money a behaviour lets the player hold.
MaxMoney == 3
\* The most items a behaviour lets the inventory hold, whatever its limit.
MaxItems == 3

\* The number of items an inventory holds, counted unit by unit.
Held(inv) ==
    Cardinality({<<i, k>> \in (DOMAIN inv) \X (1..MaxItems) : k <= inv[i].quantity})

\* The items the handlers are called with: an item object brings its own
\* value (a whole number), or none.
HandlerItems ==
    {[id |-> "sample-crop-1", value |-> 1],
     [id |-> "sample-crop-2", value |-> 2],
     [id |-> "sample-crop-1"]}

\* Array.prototype.findIndex for the test 'the entry's id is itemId',
\* counting from 1; 0 (JavaScript's -1) when no entry has the id.
FindIndex(inv, itemId) ==
    IF \E i \in DOMAIN inv : inv[i].id = itemId
    THEN Min({i \in DOMAIN inv : inv[i].id = itemId})
    ELSE 0

\* Array.prototype.splice(index, 1): the array without the entry at index.
RemoveAt(seq, index) ==
    [i \in 1..(Len(seq) - 1) |-> IF i < index THEN seq[i] ELSE seq[i + 1]]

\* Faulty variant of decrementItemFromInventory: the entry is removed only
\* once its quantity is 0.
decrementItemFromInventoryKeepsEntry(itemId, inv) ==
    LET itemInventoryIndex == FindIndex(inv, itemId)
    IN  IF itemInventoryIndex = 0
        THEN [threw |-> TRUE]
        ELSE LET quantity == inv[itemInventoryIndex].quantity
             IN  [threw |-> FALSE,
                  inventory |->
                     IF quantity > 0
                     THEN [inv EXCEPT ![itemInventoryIndex].quantity = quantity - 1]
                     ELSE RemoveAt(inv, itemInventoryIndex)]

\* event-handlers.js: decrementItemFromInventory.  When no entry has the
\* id, inventory[-1] is undefined and reading its quantity throws a
\* TypeError.
decrementItemFromInventory(itemId, inv) ==
    LET itemInventoryIndex == FindIndex(inv, itemId)
    IN  IF itemInventoryIndex = 0
        THEN [threw |-> TRUE]
        ELSE LET quantity == inv[itemInventoryIndex].quantity
             IN  [threw |-> FALSE,
                  inventory |->
                     IF quantity > 1
                     THEN [inv EXCEPT ![itemInventoryIndex].quantity = quantity - 1]
                     ELSE RemoveAt(inv, itemInventoryIndex)]

\* The value of the item a handler is given: 'value = 0' in the
\* destructuring gives an item without a value the value 0.
ValueOf(item) == IF "value" \in DOMAIN item THEN item.value ELSE 0

\* constants.js, which is not part of the source: the size of a new field.
initialFieldWidth == 2
initialFieldHeight == 2

\* Farmhand.js: createNewField: initialFieldHeight rows of
\* initialFieldWidth plots, all null.
createNewField ==
    [y \in 1..initialFieldHeight |-> [x \in 1..initialFieldWidth |-> Null]]

\* Farmhand.js: the state the constructor sets, { field: createNewField(),
\* inventory: {} }: a new field and, as inventory, an object without
\* keys, which is not an array.  money, inventoryLimit,
\* selectedPlantableItemId, selectedTool and stageFocus are not set, and
\* read as undefined.
GameInit ==
    /\ asConstructed = {"inventory", "inventoryLimit", "money",
                        "selectedPlantableItemId", "selectedTool"}
    /\ field = createNewField
    /\ inventory = <<>>
    /\ inventoryLimit = 0
    /\ money = 0
    /\ selectedPlantableItemId = ""
    /\ selectedTool = NONE
    /\ stageFocus = Undefined
    /\ thrownBy = ""
    /\ absentItemSelected = FALSE

GameIdle ==
    /\ asConstructed = {}
    /\ field = <<>>
    /\ inventory = <<>>
    /\ inventoryLimit = -1
    /\ money = 0
    /\ selectedPlantableItemId = ""
    /\ selectedTool = NONE
    /\ stageFocus = Undefined
    /\ thrownBy = ""
    /\ absentItemSelected = FALSE

\* Faulty variant of handleItemPurchase: the item's value is not compared
\* with the money.
handleItemPurchaseUnchecked(item) ==
    LET id == item.id
        value == ValueOf(item)
        currentItemSlot == FindIndex(inventory, id)
        threw == "inventory" \in asConstructed
    IN  /\ thrownBy' = IF threw THEN "handleItemPurchase" ELSE ""
        /\ IF threw
           THEN UNCHANGED <<inventory, money>>
           ELSE /\ inventory' =
                      IF currentItemSlot /= 0
                      THEN [inventory EXCEPT ![currentItemSlot].quantity = @ + 1]
                      ELSE Append(inventory, [id |-> id, quantity |-> 1])
                /\ money' = money - value
        /\ UNCHANGED <<asConstructed, field, inventoryLimit,
                       selectedPlantableItemId, selectedTool,
                       stageFocus, absentItemSelected>>
        /\ UNCHANGED <<memoVars, cropVars, cowVars, priceVars, rangeVars, queryVars>>

\* event-handlers.js: handleItemPurchase.  'value > money' is false for
\* a money that is undefined.  On the constructor's inventory, an object,
\* inventory.findIndex is not a function: the call throws a TypeError,
\* setState is not reached and the state stays as it is.  (money is
\* undefined only where the inventory is the constructor's: setState sets
\* the two together.)
handleItemPurchase(item) ==
    LET id == item.id
        value == ValueOf(item)
        currentItemSlot == FindIndex(inventory, id)
        refused == "money" \notin asConstructed /\ value > money
        threw == ~refused /\ "inventory" \in asConstructed
    IN  /\ thrownBy' = IF threw THEN "handleItemPurchase" ELSE ""
        /\ IF refused \/ threw
           THEN UNCHANGED <<inventory, money>>
           ELSE /\ inventory' =
                      IF currentItemSlot /= 0
                      THEN [inventory EXCEPT ![currentItemSlot].quantity = @ + 1]
                      ELSE Append(inventory, [id |-> id, quantity |-> 1])
                /\ money' = money - value
        /\ UNCHANGED <<asConstructed, field, inventoryLimit,
                       selectedPlantableItemId, selectedTool,
                       stageFocus, absentItemSelected>>
        /\ UNCHANGED <<memoVars, cropVars, cowVars, priceVars, rangeVars, queryVars>>

\* event-handlers.js: handleItemSell.  When decrementItemFromInventory
\* throws, setState is not reached and the state stays as it is; on the
\* constructor's inventory, an object, it throws at '[...inventory]',
\* the object not being iterable.
handleItemSell(item) ==
    LET id == item.id
        value == ValueOf(item)
        decremented == decrementItemFromInventory(id, inventory)
        threw == "inventory" \in asConstructed \/ decremented.threw
    IN  /\ thrownBy' = IF threw THEN "handleItemSell" ELSE ""
        /\ IF threw
           THEN UNCHANGED <<inventory, money>>
           ELSE /\ inventory' = decremented.inventory
                /\ money' = money + value
        /\ UNCHANGED <<asConstructed, field, inventoryLimit,
                       selectedPlantableItemId, selectedTool,
                       stageFocus, absentItemSelected>>
        /\ UNCHANGED <<memoVars, cropVars, cowVars, priceVars, rangeVars, queryVars>>

\* event-handlers.js: handleViewChange, for an event whose target has the
\* given value.
handleViewChange(value) ==
    /\ thrownBy' = ""
    /\ stageFocus' = Str(value)
    /\ UNCHANGED <<asConstructed, field, inventory, inventoryLimit, money,
                   selectedPlantableItemId, selectedTool, absentItemSelected>>
    /\ UNCHANGED <<memoVars, cropVars, cowVars, priceVars, rangeVars, queryVars>>

\* event-handlers.js: handlePlantableItemSelect.  The handler takes any
\* item; absentItemSelected remembers that it was given one the inventory
\* does not hold (the constructor's inventory holds none).
handlePlantableItemSelect(item) ==
    /\ thrownBy' = ""
    /\ selectedPlantableItemId' = item.id
    /\ selectedTool' = NONE
    /\ asConstructed' =
          asConstructed \ {"selectedPlantableItemId", "selectedTool"}
    /\ absentItemSelected' =
          (absentItemSelected \/ FindIndex(inventory, item.id) = 0)
    /\ UNCHANGED <<field, inventory, inventoryLimit, money, stageFocus>>
    /\ UNCHANGED <<memoVars, cropVars, cowVars, priceVars, rangeVars, queryVars>>

\* event-handlers.js: handleToolSelect
handleToolSelect(toolType) ==
    /\ thrownBy' = ""
    /\ selectedPlantableItemId' = ""
    /\ selectedTool' = toolType
    /\ asConstructed' =
          asConstructed \ {"selectedPlantableItemId", "selectedTool"}
    /\ UNCHANGED <<field, inventory, inventoryLimit, money, stageFocus,
                   absentItemSelected>>
    /\ UNCHANGED <<memoVars, cropVars, cowVars, priceVars, rangeVars, queryVars>>

\* event-handlers.js: handleEndDayButtonClick, which only calls
\* this.incrementDay().  The component the handlers are bound to
\* (Farmhand.js: the constructor binds every handler to the component)
\* defines no incrementDay, so the call throws a TypeError and the state
\* stays as it is.
handleEndDayButtonClick ==
    /\ thrownBy' = "handleEndDayButtonClick"
    /\ UNCHANGED <<asConstructed, field, inventory, inventoryLimit, money,
                   selectedPlantableItemId, selectedTool, stageFocus,
                   absentItemSelected>>
    /\ UNCHANGED <<memoVars, cropVars, cowVars, priceVars, rangeVars, queryVars>>

\* event-handlers.js: handlePlotClick, for a plot (x, y) of the field
\* (x and y count from 0).  undefined and the empty string are the
\* falsy values of selectedPlantableItemId and null is the only falsy
\* plot.  When decrementItemFromInventory throws, as it does for an item
\* the inventory does not hold and on the constructor's inventory,
\* setState is not reached and the state stays as it is.
handlePlotClick(x, y) ==
    LET row == field[y + 1]
        crop == getCropFromItemId(selectedPlantableItemId)
        newRow == [row EXCEPT ![x + 1] = crop]
        newField == [field EXCEPT ![y + 1] = newRow]
        decremented ==
            decrementItemFromInventory(selectedPlantableItemId, inventory)
        planting == /\ "selectedPlantableItemId" \notin asConstructed
                    /\ selectedPlantableItemId /= ""
                    /\ row[x + 1] = Null
        threw == "inventory" \in asConstructed \/ decremented.threw
    IN  /\ thrownBy' = IF planting /\ threw
                        THEN "handlePlotClick"
                        ELSE ""
        /\ IF planting /\ ~threw
           THEN /\ field' = newField
                /\ inventory' = decremented.inventory
                /\ selectedPlantableItemId' =
                      IF FindIndex(decremented.inventory,
                                   selectedPlantableItemId) /= 0
                      THEN selectedPlantableItemId
                      ELSE ""
           ELSE UNCHANGED <<field, inventory, selectedPlantableItemId>>
        /\ UNCHANGED <<asConstructed, inventoryLimit, money, selectedTool,
                       stageFocus, absentItemSelected>>
        /\ UNCHANGED <<memoVars, cropVars, cowVars, priceVars, rangeVars, queryVars>>

\* The state the game is started with: an inventory that is an array and
\* holds nothing, some money, a limit the inventory fits, no item and no
\* tool selected.
StartState ==
    [inventory |-> <<>>,
     inventoryLimit |-> 2,
     money |-> 2,
     selectedPlantableItemId |-> "",
     selectedTool |-> NONE]

\* React: component.setState(partialState), for a partial state of the
\* keys of StartState: the keys take the values given, and the rest of
\* the state stays as it is.
setState(partialState) ==
    /\ asConstructed' = {}
    /\ inventory' = partialState.inventory
    /\ inventoryLimit' = partialState.inventoryLimit
    /\ money' = partialState.money
    /\ selectedPlantableItemId' = partialState.selectedPlantableItemId
    /\ selectedTool' = partialState.selectedTool
    /\ UNCHANGED <<field, stageFocus, thrownBy, absentItemSelected>>
    /\ UNCHANGED <<memoVars, cropVars, cowVars, priceVars, rangeVars, queryVars>>

\* The component is given the state the game is started with.
SetStartState == setState(StartState)

\* The player buys an item of the shop.
Purchase ==
    \E item \in HandlerItems :
        /\ Held(inventory) < MaxItems
        /\ handleItemPurchase(item)

\* The player sells an item.
Sell ==
    \E item \in HandlerItems :
        /\ money + ValueOf(item) <= MaxMoney
        /\ handleItemSell(item)

\* The player selects a plantable item.
SelectPlantableItem ==
    \E item \in HandlerItems : handlePlantableItemSelect(item)

\* The player selects a tool.
SelectTool == \E toolType \in {NONE, WATERING_CAN} : handleToolSelect(toolType)

\* The player clicks a plot of the field.
PlotClick ==
    \E y \in 0..(Len(field) - 1) :
        \E x \in 0..(Len(field[y + 1]) - 1) : handlePlotClick(x, y)

\* The view the player changes to (the one the handler's test uses).
StageFocusTypes == {"SHOP"}

\* The player changes the view.
ViewChange == \E value \in StageFocusTypes : handleViewChange(value)

\* The player clicks the button that ends the day.
EndDayButtonClick == handleEndDayButtonClick

(***************************************************************************)
(* Inventory space                                                         *)
(***************************************************************************)
\* A JavaScript number that may be Infinity.
Num(n) == [finite |-> TRUE, n |-> n]
Infinity == [finite |-> FALSE]
\* a > n for a number a that may be Infinity
GreaterThan(a, n) == IF a.finite THEN a.n > n ELSE TRUE

\* Faulty variant of inventorySpaceConsumed: entries are counted, not
\* their quantities.
inventorySpaceConsumedCountsEntries(inv) == Len(inv)

\* utils.js: inventorySpaceConsumed: reduce over the entries from the
\* left, sum[k] being the sum after k entries.  (The function is memoized
\* under the key JSON.stringify(inventory), which holds every quantity.)
inventorySpaceConsumed(inv) ==
    LET sum[k \in 0..Len(inv)] ==
            IF k = 0 THEN 0 ELSE sum[k - 1] + inv[k].quantity
    IN  sum[Len(inv)]

\* utils.js: inventorySpaceRemaining
inventorySpaceRemaining(state) ==
    IF state.inventoryLimit = -1
    THEN Infinity
    ELSE Num(state.inventoryLimit - inventorySpaceConsumed(state.inventory))

\* utils.js: doesInventorySpaceRemain
doesInventorySpaceRemain(state) ==
    GreaterThan(inventorySpaceRemaining(
        [inventory |-> state.inventory,
         inventoryLimit |-> state.inventoryLimit]), 0)

\* The inventories the space is asked of: up to two entries, which may
\* have the same id.
QueryInventories ==
    LET Entries == [id : {"sample-crop-1", "sample-crop-2"},
                    quantity : 1..MaxItems]
    IN  {<<>>} \cup {<<e>> : e \in Entries}
              \cup {<<e1, e2>> : e1 \in Entries, e2 \in Entries}

SpaceInit == spaceQuery = Null

SpaceIdle == spaceQuery = Null

\* The three functions are asked about an inventory and a limit.
QuerySpace ==
    /\ spaceQuery = Null
    /\ \E inv \in QueryInventories, limit \in (0 - 2)..(2 * MaxItems) :
          LET state == [inventory |-> inv, inventoryLimit |-> limit]
          IN  spaceQuery' =
                 [state |-> state,
                  consumed |-> inventorySpaceConsumed(inv),
                  remaining |-> inventorySpaceRemaining(state),
                  doesRemain |-> doesInventorySpaceRemain(state)]
    /\ UNCHANGED valueQuery
    /\ UNCHANGED <<memoVars, cropVars, cowVars, priceVars, rangeVars, gameVars>>

(***************************************************************************)
(* Item values                                                             *)
(***************************************************************************)
\* Amounts are binary floating-point numbers of dollars.  The catalog's
\* values are multiples of 25 cents and the multipliers multiples of 1/4
\* (RandDen is 2), which a double holds exactly.  A product of the two that
\* lies half way between two cents is then a multiple of 1/8 dollar, which
\* a double holds exactly too, and any other product is further from the
\* half way than a double's error.  So the roundings below are those of
\* the exact amounts.

\* Math.round of the non-negative amount n/d: the nearest integer, the
\* upper one of an amount half way.
MathRound(n, d) == (2 * n + d) \div (2 * d)

\* Number.prototype.toFixed(0) of the non-negative amount n/d, as a
\* number: the nearest integer, the larger one of two that are as near.
ToFixed(n, d) ==
    LET below == n \div d
    IN  IF 2 * (n - below * d) < d THEN below ELSE below + 1

\* Whether a value adjustment map has a truthy entry for an item: an
\* entry that is there and is not 0.
HasAdjustment(adjustments, id) ==
    id \in DOMAIN adjustments /\ adjustments[id] /= 0

\* utils.js: getItemValue, in cents.  A multiplier m is held as
\* m * 2 * RandDen, so value * m * 100 is cents * multiplier / (2 * RandDen);
\* Dinero's toUnit divides the amount of cents by 100 again.
getItemValue(item, adjustments) ==
    LET id == item.id
    IN  IF HasAdjustment(adjustments, id)
        THEN IF itemsMap[id].doesPriceFluctuate
             THEN MathRound(itemsMap[id].value * adjustments[id], 2 * RandDen)
             ELSE MathRound(itemsMap[id].value, 1)
        ELSE MathRound(itemsMap[id].value, 1)

\* utils.js: getAdjustedItemValue, in cents: toFixed(2) of an amount of
\* dollars is toFixed(0) of the amount of cents.
getAdjustedItemValue(adjustments, itemId) ==
    IF HasAdjustment(adjustments, itemId)
    THEN ToFixed(adjustments[itemId] * itemsMap[itemId].value, 2 * RandDen)
    ELSE ToFixed(itemsMap[itemId].value, 1)

\* The items a value adjustment map of a query may have entries for: two
\* that fluctuate and one that does not.
AdjustedItemIds == {"sample-crop-1", "sample-crop-3", "sample-crop-4"}

\* The value adjustment maps of the queries: multipliers from 0.5 to 1.5,
\* and 0.
AdjustmentMaps ==
    UNION {[ids -> {0} \cup (RandDen..(3 * RandDen))] :
              ids \in SUBSET AdjustedItemIds}

ValueInit == valueQuery = Null

ValueIdle == valueQuery = Null

\* The two functions are asked the value of an item.
QueryValue ==
    /\ valueQuery = Null
    /\ \E id \in ItemIds, adjustments \in AdjustmentMaps :
          valueQuery' =
             [id |-> id,
              valueAdjustments |-> adjustments,
              itemValue |-> getItemValue(itemsMap[id], adjustments),
              adjustedItemValue |-> getAdjustedItemValue(adjustments, id)]
    /\ UNCHANGED spaceQuery
    /\ UNCHANGED <<memoVars, cropVars, cowVars, priceVars, rangeVars, gameVars>>

(***************************************************************************)
(* Specifications                                                          *)
(***************************************************************************)
\* The components a specification of the first four leaves idle.
RestIdle == RangeIdle /\ GameIdle /\ SpaceIdle /\ ValueIdle
\* The first four components, idle.
CoreIdle == MemoIdle /\ CropIdle /\ CowIdle /\ PriceIdle

InitMemo == MemoInit /\ CropIdle /\ CowIdle /\ PriceIdle /\ RestIdle
NextMemo == Call
SpecMemo == InitMemo /\ [][NextMemo]_vars

InitCrop == MemoIdle /\ CropInit /\ CowIdle /\ PriceIdle /\ RestIdle
NextCrop ==
    \/ \E w \in BOOLEAN : SetWasWateredToday(w)
    \/ \E f \in BOOLEAN : SetIsFertilized(f)
    \/ IncrementAge
SpecCrop == InitCrop /\ [][NextCrop]_vars

\* A plot that is never watered: the crop specification without watering.
NextDry ==
    \/ \E f \in BOOLEAN : SetIsFertilized(f)
    \/ IncrementAge
SpecDry == InitCrop /\ [][NextDry]_vars

InitCow == MemoIdle /\ CropIdle /\ CowInit /\ PriceIdle /\ RestIdle
NextCow == GenerateCow \/ Breed
SpecCow == InitCow /\ [][NextCow]_vars

InitPrice == MemoIdle /\ CropIdle /\ CowIdle /\ PriceInit /\ RestIdle
NextPrice == GenerateValueAdjustments
SpecPrice == InitPrice /\ [][NextPrice]_vars

InitRange == CoreIdle /\ RangeInit /\ GameIdle /\ SpaceIdle /\ ValueIdle
NextRange == ForRange
SpecRange == InitRange /\ [][NextRange]_vars

InitGame == CoreIdle /\ RangeIdle /\ GameInit /\ SpaceIdle /\ ValueIdle
NextGame ==
    \/ SetStartState
    \/ Purchase
    \/ Sell
    \/ SelectPlantableItem
    \/ SelectTool
    \/ PlotClick
    \/ ViewChange
    \/ EndDayButtonClick
SpecGame == InitGame /\ [][NextGame]_vars

InitSpace == CoreIdle /\ RangeIdle /\ GameIdle /\ SpaceInit /\ ValueIdle
NextSpace == QuerySpace
SpecSpace == InitSpace /\ [][NextSpace]_vars

InitValue == CoreIdle /\ RangeIdle /\ GameIdle /\ SpaceIdle /\ ValueInit
NextValue == QueryValue
SpecValue == InitValue /\ [][NextValue]_vars

Init == InitCrop
Next == NextCrop
Spec == SpecCrop

(***************************************************************************)
(* Properties                                                              *)
(***************************************************************************)
PlotHoldsCrop == plot /= Null /\ plot.itemId \in CropItemIds

\* C1 (SpecMemo): every call of a memoized function returns what the
\* wrapped function itself returns for the arguments of the call, be the
\* call a cache hit, a miss or the first call after the cache was cleared.
C1_MemoizedCallReturnsUnwrappedResult ==
    lastCall /= Null => lastCall.result = Unwrapped(memoFn, lastCall.args)

\* C2 (SpecMemo): eviction is never partial.  A set made while the cache
\* holds more than MEMOIZE_CACHE_CLEAR_THRESHOLD keys leaves exactly the
\* key it stores; a set made while it holds at most that many keeps every
\* key and its value; so the cache never holds more than
\* MEMOIZE_CACHE_CLEAR_THRESHOLD + 1 keys.
C2_EvictionIsNeverPartial ==
    [][LET held == Cardinality(DOMAIN cache)
           key == lastCall'.key
       IN  /\ Cardinality(DOMAIN cache') <= MEMOIZE_CACHE_CLEAR_THRESHOLD + 1
           /\ ~lastCall'.hit =>
                /\ key \in DOMAIN cache'
                /\ cache'[key] = lastCall'.result
                /\ held > MEMOIZE_CACHE_CLEAR_THRESHOLD => DOMAIN cache' = {key}
                /\ held <= MEMOIZE_CACHE_CLEAR_THRESHOLD =>
                     /\ DOMAIN cache' = DOMAIN cache \cup {key}
                     /\ \A k \in DOMAIN cache \ {key} : cache'[k] = cache[k]
      ]_vars

\* C2 witness: a set has just dropped a cache that held more than the
\* threshold and left the one key it stored.
C2_Witness ==
    /\ lastCall /= Null
    /\ lastCall.cleared
    /\ DOMAIN cache = {lastCall.key}

\* C3 (SpecCrop): for a crop whose item has the timetable {SEED: s,
\* GROWING: g}, getCropLifeStage is SEED when floor(daysWatered) < s,
\* GROWING when s <= floor(daysWatered) < s + g, and GROWN from s + g on.
C3_LifeStageFollowsTimetable ==
    PlotHoldsCrop =>
        LET s == itemsMap[plot.itemId].cropTimetable[SEED]
            g == itemsMap[plot.itemId].cropTimetable[GROWING]
            floorDaysWatered == plot.daysWatered \div Scale
        IN  getCropLifeStage(plot) =
                IF floorDaysWatered < s THEN SEED
                ELSE IF floorDaysWatered < s + g THEN GROWING
                ELSE GROWN

\* C3 witness: the {SEED: 3, GROWING: 4} crop at a fractional daysWatered
\* of 7 or more.
C3_Witness ==
    /\ PlotHoldsCrop
    /\ plot.itemId = "sample-crop-2"
    /\ plot.daysWatered >= 7 * Scale
    /\ plot.daysWatered % Scale /= 0

\* C4 (SpecDry): a crop made by getCropFromItemId whose timetable has a
\* SEED duration of at least 1 and that is never watered stays SEED, with
\* daysWatered 0, while daysOld counts the ticks, fertilized or not.
C4_UnwateredCropStaysSeed ==
    (PlotHoldsCrop /\ itemsMap[plot.itemId].cropTimetable[SEED] >= 1) =>
        /\ plot.daysWatered = 0
        /\ plot.daysOld = ticks
        /\ getCropLifeStage(plot) = SEED

\* C4 witness: a fertilized crop, never watered, older than its whole
\* timetable.
C4_Witness ==
    /\ PlotHoldsCrop
    /\ itemsMap[plot.itemId].cropTimetable[SEED] >= 1
    /\ plot.isFertilized
    /\ plot.daysOld > itemsMap[plot.itemId].cropTimetable[SEED]
                        + itemsMap[plot.itemId].cropTimetable[GROWING]

\* C5 (SpecCrop): one tick of a crop raises daysOld by exactly 1 and
\* daysWatered by 0 when it was not watered today, by 1 when it was watered
\* and is not fertilized, and by 1 + FERTILIZER_BONUS when it was watered
\* and is fertilized.
C5_TickIncrements ==
    [][(ticks' = ticks + 1 /\ PlotHoldsCrop) =>
          /\ plot'.daysOld = plot.daysOld + 1
          /\ plot'.daysWatered - plot.daysWatered =
                IF ~plot.wasWateredToday THEN 0
                ELSE IF plot.isFertilized THEN Scale + FERTILIZER_BONUS
                ELSE Scale
      ]_vars

\* C5 witness: a crop after one tick on which it was watered and fertilized.
C5_Witness ==
    /\ PlotHoldsCrop
    /\ ticks = 1
    /\ plot.wasWateredToday
    /\ plot.isFertilized
    /\ plot.daysWatered = Scale + FERTILIZER_BONUS

\* C6 (SpecCrop): a tick of a plot content whose item is not a crop
\* returns it as it was given, no field added or changed.
C6_NonCropIsUnchanged ==
    [][(ticks' = ticks + 1 /\ ~PlotHoldsCrop) => plot' = plot]_vars

\* C6 witness: a scarecrow record that has the fields of a crop, after
\* several ticks.
C6_Witness ==
    /\ plot = getCropFromItemId("scarecrow")
    /\ ticks >= 3

\* C7, as claimed (SpecCrop): daysWatered <= daysOld in every state.
C7_DaysWateredAtMostDaysOld ==
    PlotHoldsCrop => plot.daysWatered <= Scale * plot.daysOld

\* C7, amended (SpecCrop): daysWatered <= (1 + FERTILIZER_BONUS) * daysOld
\* in every state.
C7_DaysWateredAtMostDaysOldWithBonus ==
    PlotHoldsCrop =>
        plot.daysWatered <= (Scale + FERTILIZER_BONUS) * plot.daysOld

\* C7 witness: a crop watered and fertilized on each of its days, whose
\* daysWatered is above its daysOld and at the amended bound.
C7_Witness ==
    /\ PlotHoldsCrop
    /\ plot.daysOld >= 2
    /\ plot.daysWatered > Scale * plot.daysOld
    /\ plot.daysWatered = (Scale + FERTILIZER_BONUS) * plot.daysOld

\* C8 (SpecCow): generateOffspringCow throws an error that names both cows
\* exactly when the two cows have the same gender, and then returns no
\* cow; when the genders differ it returns a cow, in either argument order.
C8_SameGenderThrows ==
    breeding /= Null =>
        LET cow1 == breeding.cow1
            cow2 == breeding.cow2
            outcome == breeding.outcome
        IN  /\ outcome.threw <=> (cow1.gender = cow2.gender)
            /\ outcome.threw =>
                 /\ outcome.message[1] = cow1
                 /\ outcome.message[2] = cow2
                 /\ "cow" \notin DOMAIN outcome
            /\ ~outcome.threw => "cow" \in DOMAIN outcome

\* C8 witness: two different cows of the same gender were bred.
C8_Witness ==
    /\ breeding /= Null
    /\ breeding.outcome.threw
    /\ breeding.cow1 /= breeding.cow2

\* C9 (SpecCow): the offspring of a male and a female cow, in either
\* argument order, has the male parent's color, the mean of the parents'
\* baseWeight, and as colorsInBloodline the union of both parents'
\* colorsInBloodline and both parents' colors.
C9_OffspringInheritance ==
    (breeding /= Null /\ ~breeding.outcome.threw) =>
        LET parents == {breeding.cow1, breeding.cow2}
            male == CHOOSE c \in parents : c.gender = MALE
            female == CHOOSE c \in parents : c.gender = FEMALE
            offspring == breeding.outcome.cow
            w == offspring.baseWeight
            wm == male.baseWeight
            wf == female.baseWeight
        IN  /\ offspring.color = male.color
            \* 2 * w = wm + wf, over the common denominator
            /\ 2 * w[1] * wm[2] * wf[2] = (wm[1] * wf[2] + wf[1] * wm[2]) * w[2]
            /\ offspring.colorsInBloodline =
                 male.colorsInBloodline \cup female.colorsInBloodline
                     \cup {male.color, female.color}

\* C9 witness: a female first argument and a male second argument of
\* different weights produced an offspring; the female is an offspring
\* herself, and a color of her bloodline that is neither parent's own
\* color is in the bloodline of the offspring.
C9_Witness ==
    /\ breeding /= Null
    /\ ~breeding.outcome.threw
    /\ breeding.cow1.gender = FEMALE
    /\ breeding.cow1.baseWeight /= breeding.cow2.baseWeight
    /\ Cardinality(breeding.cow1.colorsInBloodline) = 2
    /\ breeding.outcome.cow.colorsInBloodline
          /= {breeding.cow1.color, breeding.cow2.color}

\* C10 (SpecPrice): the keys of the map generateValueAdjustments returns
\* are exactly the items flagged doesPriceFluctuate; an item a crash names
\* has the value 0.5, also when a surge names it too; an item only a surge
\* names has 1.5; any other has a value in [0.5, 1.5).  (Values are in
\* units of 1/(2*RandDen): 0.5 is RandDen, 1.5 is 3*RandDen.)
C10_ValueAdjustments ==
    valueAdjustments /= Null =>
        /\ DOMAIN valueAdjustments =
             {id \in ItemIds : itemsMap[id].doesPriceFluctuate}
        /\ \A id \in DOMAIN valueAdjustments :
             IF id \in DOMAIN priceCrashes
             THEN valueAdjustments[id] = RandDen
             ELSE IF id \in DOMAIN priceSurges
             THEN valueAdjustments[id] = 3 * RandDen
             ELSE /\ valueAdjustments[id] >= RandDen
                  /\ valueAdjustments[id] < 3 * RandDen

\* C10 witness: adjustments generated while one fluctuating item is named
\* by a crash and a surge, another by a surge alone, a third by neither,
\* and an item that does not fluctuate is named by a crash.
C10_Witness ==
    /\ valueAdjustments /= Null
    /\ "sample-crop-1" \in DOMAIN priceCrashes \cap DOMAIN priceSurges
    /\ "sample-crop-2" \in DOMAIN priceSurges \ DOMAIN priceCrashes
    /\ "sample-crop-3" \notin DOMAIN priceSurges \cup DOMAIN priceCrashes
    /\ "sample-crop-4" \in DOMAIN priceCrashes
    /\ valueAdjustments["sample-crop-3"] > RandDen

\* C11 (SpecRange): forRange calls fieldFn exactly once for each plot of
\* the square of getRangeCoords that lies in the field and for no other
\* plot, row after row and from left to right in a row; each call is
\* given the state the call before it returned, and forRange returns the
\* state the last call returned (the state it was given when there is no
\* call).  On the 5 by 5 field, radius 1 makes 9 calls at (2, 2) and 4
\* calls at (0, 0).
C11_ForRangeFoldsOverClippedSquare ==
    rangeCall /= Null =>
        LET state == rangeCall.state
            calls == rangeCall.result.calls
            coords == getRangeCoords(rangeCall.rangeRadius,
                                     rangeCall.plotX, rangeCall.plotY)
            square == {coords[y][x] : y \in DOMAIN coords, x \in DOMAIN coords}
            width == Len(state.field[1])
            height == Len(state.field)
            inside == {c \in square : /\ 0 <= c.x /\ c.x < width
                                      /\ 0 <= c.y /\ c.y < height}
        IN  /\ Len(calls) = Cardinality(inside)
            /\ {[x |-> calls[i].x, y |-> calls[i].y] : i \in DOMAIN calls} = inside
            /\ \A i, j \in DOMAIN calls :
                  i < j => \/ calls[i].y < calls[j].y
                           \/ /\ calls[i].y = calls[j].y
                              /\ calls[i].x < calls[j].x
            /\ \A i \in DOMAIN calls : calls[i].seen = i - 1
            /\ \A y \in 1..height, x \in 1..width :
                  rangeCall.result.field[y][x] =
                     IF [x |-> x - 1, y |-> y - 1] \in inside THEN 1 ELSE 0
            /\ inside = {} => rangeCall.result = state
            /\ (width = 5 /\ height = 5 /\ rangeCall.rangeRadius = 1) =>
                  /\ (rangeCall.plotX = 2 /\ rangeCall.plotY = 2) => Len(calls) = 9
                  /\ (rangeCall.plotX = 0 /\ rangeCall.plotY = 0) => Len(calls) = 4

\* C11 witness: radius 1 at the corner (0, 0) of the 5 by 5 field made the
\* calls for (0, 0), (1, 0), (0, 1) and (1, 1), in this order.
C11_Witness ==
    /\ rangeCall /= Null
    /\ Len(rangeCall.state.field) = 5
    /\ rangeCall.rangeRadius = 1
    /\ rangeCall.plotX = 0
    /\ rangeCall.plotY = 0
    /\ [i \in DOMAIN rangeCall.result.calls |->
           <<rangeCall.result.calls[i].x, rangeCall.result.calls[i].y>>]
         = <<(<<0, 0>>), (<<1, 0>>), (<<0, 1>>), (<<1, 1>>)>>

\* The quantity an inventory holds of an item: 0 when it has no entry.
Qty(inv, itemId) ==
    IF FindIndex(inv, itemId) = 0 THEN 0 ELSE inv[FindIndex(inv, itemId)].quantity

\* C12 (SpecGame): once the game has its start state, an inventory that
\* fits its limit, then unless inventoryLimit is -1 the quantities of the
\* inventory's entries never sum to more than inventoryLimit, and
\* inventorySpaceRemaining is never negative.
C12_InventoryFitsLimit ==
    asConstructed = {} =>
        /\ inventoryLimit /= -1 => Held(inventory) <= inventoryLimit
        /\ GreaterThan(inventorySpaceRemaining(
               [inventory |-> inventory, inventoryLimit |-> inventoryLimit]), -1)

\* C13 (SpecGame): no two entries of the inventory have the same id and
\* every entry has a quantity of at least 1; a purchase of a held item
\* raises its entry's quantity by 1 and adds no entry, and the sale or the
\* planting of the last unit of an item removes its entry.
C13_EntriesUniqueAndPositive ==
    /\ [](/\ \A i, j \in DOMAIN inventory :
               inventory[i].id = inventory[j].id => i = j
          /\ \A i \in DOMAIN inventory : inventory[i].quantity >= 1)
    /\ [][/\ \A item \in HandlerItems :
              (/\ handleItemPurchase(item)
               /\ Qty(inventory, item.id) >= 1
               /\ ValueOf(item) <= money)
              => /\ Len(inventory') = Len(inventory)
                 /\ Qty(inventory', item.id) = Qty(inventory, item.id) + 1
          /\ \A item \in HandlerItems :
              (handleItemSell(item) /\ Qty(inventory, item.id) = 1)
              => /\ Len(inventory') = Len(inventory) - 1
                 /\ \A i \in DOMAIN inventory' : inventory'[i].id /= item.id
          /\ \A y \in 0..(Len(field) - 1) : \A x \in 0..(Len(field[y + 1]) - 1) :
              (/\ handlePlotClick(x, y)
               /\ field[y + 1][x + 1] = Null
               /\ Qty(inventory, selectedPlantableItemId) = 1)
              => /\ Len(inventory') = Len(inventory) - 1
                 /\ \A i \in DOMAIN inventory' :
                       inventory'[i].id /= selectedPlantableItemId
          ]_vars

\* C13 witness: the inventory holds two units of one item, bought one by
\* one, and one of another item, of which a unit has been planted.
C13_Witness ==
    /\ Len(inventory) = 2
    /\ inventory[1] = [id |-> "sample-crop-1", quantity |-> 2]
    /\ inventory[2] = [id |-> "sample-crop-2", quantity |-> 1]
    /\ \E y \in DOMAIN field : \E x \in DOMAIN field[y] :
          field[y][x] /= Null /\ field[y][x].itemId = "sample-crop-2"

\* C14 (SpecSpace): inventorySpaceConsumed is the sum of the entries'
\* quantities; inventorySpaceRemaining is Infinity when the limit is -1
\* and the limit less that sum otherwise; doesInventorySpaceRemain is true
\* exactly when the limit is -1 or the sum is less than the limit.
C14_InventorySpace ==
    spaceQuery /= Null =>
        LET inv == spaceQuery.state.inventory
            limit == spaceQuery.state.inventoryLimit
            total == Held(inv)
        IN  /\ spaceQuery.consumed = total
            /\ limit = -1 => ~spaceQuery.remaining.finite
            /\ limit /= -1 => /\ spaceQuery.remaining.finite
                               /\ spaceQuery.remaining.n = limit - total
            /\ spaceQuery.doesRemain <=> (limit = -1 \/ total < limit)

\* C14 witness: an inventory of two entries of the same item that is
\* exactly full, for which doesInventorySpaceRemain is false.
C14_Witness ==
    /\ spaceQuery /= Null
    /\ Len(spaceQuery.state.inventory) = 2
    /\ spaceQuery.state.inventory[1].id = spaceQuery.state.inventory[2].id
    /\ spaceQuery.state.inventory[1].quantity = 2
    /\ spaceQuery.consumed = spaceQuery.state.inventoryLimit
    /\ ~spaceQuery.doesRemain

\* C15 (SpecValue): getItemValue and getAdjustedItemValue return the same
\* amount for every item and every value adjustment map: the item's value
\* times the map's multiplier for it, or times 1 when the map has none,
\* rounded to a cent.
C15_ItemValuesAgree ==
    valueQuery /= Null =>
        LET id == valueQuery.id
            exact == IF /\ id \in DOMAIN valueQuery.valueAdjustments
                        /\ valueQuery.valueAdjustments[id] /= 0
                     THEN <<itemsMap[id].value * valueQuery.valueAdjustments[id],
                            2 * RandDen>>
                     ELSE <<itemsMap[id].value, 1>>
            nearest == {c \in 0..(2 * exact[1]) :
                           /\ 2 * (c * exact[2] - exact[1]) <= exact[2]
                           /\ 2 * (exact[1] - c * exact[2]) <= exact[2]}
        IN  /\ valueQuery.itemValue = valueQuery.adjustedItemValue
            /\ valueQuery.itemValue \in nearest

\* C16 (SpecGame): handlePlotClick(x, y) leaves field, inventory and
\* selectedPlantableItemId as they are when no item is selected or plot
\* (x, y) is occupied; otherwise it puts a fresh crop of the selected item
\* in plot (x, y), leaves every other plot as it is, lowers the item's
\* quantity by 1, and sets selectedPlantableItemId to '' exactly when the
\* item's last unit was used.
C16_PlotClickEffects ==
    [][\A y \in 0..(Len(field) - 1) : \A x \in 0..(Len(field[y + 1]) - 1) :
          handlePlotClick(x, y) =>
             IF selectedPlantableItemId = "" \/ field[y + 1][x + 1] /= Null
             THEN UNCHANGED <<field, inventory, selectedPlantableItemId>>
             ELSE /\ field'[y + 1][x + 1] =
                        [itemId |-> selectedPlantableItemId,
                         daysOld |-> 0,
                         daysWatered |-> 0,
                         isFertilized |-> FALSE,
                         wasWateredToday |-> FALSE]
                  /\ \A v \in DOMAIN field : \A u \in DOMAIN field[v] :
                        <<u, v>> /= <<x + 1, y + 1>> => field'[v][u] = field[v][u]
                  /\ Qty(inventory', selectedPlantableItemId)
                        = Qty(inventory, selectedPlantableItemId) - 1
                  /\ selectedPlantableItemId' =
                        IF Qty(inventory, selectedPlantableItemId) = 1
                        THEN ""
                        ELSE selectedPlantableItemId
      ]_vars

\* C17 (SpecGame): as long as handlePlantableItemSelect has only been
\* given items the inventory held, a selectedPlantableItemId other than ''
\* is the id of an entry of the inventory.
C17_SelectedItemIsHeld ==
    (~absentItemSelected /\ selectedPlantableItemId /= "") =>
        \E i \in DOMAIN inventory : inventory[i].id = selectedPlantableItemId

\* C18 as stated (SpecGame): once the game has its start state, with
\* money that is not negative, money is never negative; a purchase of an
\* item whose value is more than the money changes neither inventory nor
\* money; any other purchase lowers money by the item's value and raises
\* the item's quantity by 1; a sale raises money by the item's value.
C18_EverySaleRaisesMoney ==
    /\ []("money" \notin asConstructed => money >= 0)
    /\ []["money" \notin asConstructed => \A item \in HandlerItems :
             /\ handleItemPurchase(item) =>
                   IF ValueOf(item) > money
                   THEN UNCHANGED <<inventory, money>>
                   ELSE /\ money' = money - ValueOf(item)
                        /\ Qty(inventory', item.id) = Qty(inventory, item.id) + 1
             /\ handleItemSell(item) => money' = money + ValueOf(item)
          ]_vars

\* C18 (SpecGame), amended: once the game has its start state, with money
\* that is not negative, money is never negative; a purchase of an item
\* whose value is more than the money changes neither inventory nor
\* money; any other purchase lowers money by the item's value and raises
\* the item's quantity by 1; a sale of an item the inventory holds raises
\* money by the item's value and lowers the item's quantity by 1; a sale
\* of an item the inventory does not hold throws and changes neither
\* inventory nor money.
C18_MoneyNeverNegative ==
    /\ []("money" \notin asConstructed => money >= 0)
    /\ []["money" \notin asConstructed => \A item \in HandlerItems :
             /\ handleItemPurchase(item) =>
                   IF ValueOf(item) > money
                   THEN UNCHANGED <<inventory, money>>
                   ELSE /\ money' = money - ValueOf(item)
                        /\ Qty(inventory', item.id) = Qty(inventory, item.id) + 1
             /\ handleItemSell(item) =>
                   IF Qty(inventory, item.id) >= 1
                   THEN /\ money' = money + ValueOf(item)
                        /\ Qty(inventory', item.id) = Qty(inventory, item.id) - 1
                        /\ thrownBy' = ""
                   ELSE /\ UNCHANGED <<inventory, money>>
                        /\ thrownBy' = "handleItemSell"
          ]_vars

\* C18 witness: the player has spent all the money on an item, so that a
\* further purchase of it is refused, and the sale of an item the
\* inventory does not hold has just thrown.
C18_Witness ==
    /\ money = 0
    /\ Qty(inventory, "sample-crop-2") = 1
    /\ Qty(inventory, "sample-crop-1") = 0
    /\ thrownBy = "handleItemSell"

\* C19 (SpecCow): the color of every cow of the herd is among its
\* colorsInBloodline, and the colorsInBloodline of an offspring hold
\* those of both of its parents.
C19_BloodlinesGrow ==
    /\ \A cow \in herd : cow.color \in cow.colorsInBloodline
    /\ (breeding /= Null /\ ~breeding.outcome.threw) =>
          /\ breeding.outcome.cow.color
                \in breeding.outcome.cow.colorsInBloodline
          /\ breeding.cow1.colorsInBloodline
                \subseteq breeding.outcome.cow.colorsInBloodline
          /\ breeding.cow2.colorsInBloodline
                \subseteq breeding.outcome.cow.colorsInBloodline

\* C19 witness: a line of descent of two steps.  A cow of the herd that is
\* an offspring of parents of two colors was bred with a cow of her own
\* color, and their offspring has both colors in its bloodline.
C19_Witness ==
    /\ breeding /= Null
    /\ ~breeding.outcome.threw
    /\ breeding.cow1 \in herd
    /\ breeding.cow2 \in herd
    /\ Cardinality(breeding.cow2.colorsInBloodline) = 2
    /\ Cardinality(breeding.cow1.colorsInBloodline) = 1
    /\ breeding.cow1.color = breeding.cow2.color
    /\ Cardinality(breeding.outcome.cow.colorsInBloodline) = 2

====
